---- MODULE Spec2Model ----
(***************************************************************************)
(* A model of lit-dragging's drag-controller.ts: the DragController, the   *)
(* DraggableDirective created by handle(), the press / move / release      *)
(* closures they register, and the callbacks those closures invoke.        *)
(*                                                                         *)
(* The DOM is modelled by what the code uses of it: per node the ordered   *)
(* list of 'mousedown' listeners, and the ordered lists of 'mousemove' and *)
(* 'mouseup' listeners of window and of 'contextmenu' listeners of         *)
(* document.  Every input event is one step: it runs every listener        *)
(* registered for it, in registration order, to completion.                *)
(*                                                                         *)
(* hist records the input events in arrival order and log records the      *)
(* callback invocations in invocation order; the properties are stated     *)
(* over these two records.                                                 *)
(***************************************************************************)
EXTENDS Integers, Sequences, FiniteSets, TLC

\* The number of input events of a run.
MaxEvents == 4

Nodes == {"n1", "n2"}
Controllers == {"c1", "c2"}
Bindings == {"bA", "bB"}
Payloads == {"dA", "dB"}
\* The pointer's path: its position (clientX, clientY) at the k-th movement event.
PointerPath(k) == IF k % 2 = 1 THEN <<110, 90>> ELSE <<120, 130>>
\* Where a press on a node lands: its (clientX, clientY).
PressPoint(n) == IF n = "n1" THEN <<100, 100>> ELSE <<120, 130>>
\* The host's layout offset (offsetLeft, offsetTop) read at press time.
HostOffset == <<7, 9>>
PartTypes == {"ELEMENT", "ATTRIBUTE"}

\* An undefined reference (target, element, controller, callback).
None == "none"
\* The undefined payload.
Undefined == "undefined"

(***************************************************************************)
(* JavaScript numbers: a number, undefined (a declared, unassigned let) or *)
(* NaN (arithmetic on undefined).                                          *)
(***************************************************************************)
Num(v) == [t |-> "number", v |-> v]
Undef == [t |-> "undefined", v |-> 0]
NaN == [t |-> "NaN", v |-> 0]

JsAdd(a, b) ==
    IF a.t = "number" /\ b.t = "number" THEN Num(a.v + b.v) ELSE NaN

JsSub(a, b) ==
    IF a.t = "number" /\ b.t = "number" THEN Num(a.v - b.v) ELSE NaN

\* a ?? b on numbers
NullishNum(a, b) == IF a.t = "undefined" THEN b ELSE a

\* a ?? b on references
Nullish(a, b) == IF a = None THEN b ELSE a

(***************************************************************************)
(* What onStart does on one press: return nothing, throw, or return a      *)
(* DraggableStartResult with some of its optional fields.                  *)
(***************************************************************************)
StartResults == {"void", "throw", "full", "partial"}

\* config?.field for each field of onStart's result
ConfigOf(res) ==
    CASE res = "full" ->
           [startX |-> Num(50), startY |-> Num(50), onMove |-> "returned", onEnd |-> "returned"]
      [] res = "partial" ->
           [startX |-> Num(50), startY |-> Undef, onMove |-> "returned", onEnd |-> None]
      [] OTHER ->
           [startX |-> Undef, startY |-> Undef, onMove |-> None, onEnd |-> None]

VARIABLES
    options,      \* controller -> its _options: which callbacks it has, its target
    cdata,        \* controller -> its data slot
    constructed,  \* binding -> "no", "yes", or "error" (the constructor threw)
    bindings,     \* binding -> its fields controller, element, data
    mousedown,    \* node -> the instances whose #onMouseDown listens on it, in order
    sessions,     \* the closures created by #onMouseDown, one per invocation
    mousemove,    \* window's 'mousemove' listeners: sessions' onMouseMove
    mouseup,      \* window's 'mouseup' listeners: sessions' onMouseUp
    contextmenu,  \* document's 'contextmenu' listeners: sessions' onMouseUp
    log,          \* the callback invocations, in order
    hist          \* the input events, in order

vars == <<options, cdata, constructed, bindings, mousedown, sessions,
          mousemove, mouseup, contextmenu, log, hist>>

\* EventTarget.addEventListener: a listener already registered is not added again
AddEventListener(ls, l) ==
    IF \E i \in DOMAIN ls : ls[i] = l THEN ls ELSE Append(ls, l)

\* EventTarget.removeEventListener
RemoveEventListener(ls, l) == SelectSeq(ls, LAMBDA x : x # l)

\* The options a controller keeps, {...options}: onStart alone (the demo's
\* elements), all three callbacks, or onMove alone (the README's example)
CallbackProfiles ==
    { [onStart |-> TRUE, onMove |-> FALSE, onEnd |-> FALSE],
      [onStart |-> TRUE, onMove |-> TRUE, onEnd |-> TRUE],
      [onStart |-> FALSE, onMove |-> TRUE, onEnd |-> FALSE] }

OptionProfiles ==
    { [onStart |-> p.onStart, onMove |-> p.onMove, onEnd |-> p.onEnd, target |-> t] :
        p \in CallbackProfiles, t \in {None, "n1"} }

\* The bindings of a template: not yet constructed, or rendered once, as
\* html`<div ${c1.handle(dA)}></div><div ${c1.handle(dB)}></div>` leaves them.
Unrendered ==
    [b \in Bindings |-> [controller |-> None, element |-> None, data |-> Undefined]]

Rendered ==
    [b \in Bindings |->
        IF b = "bA" THEN [controller |-> "c1", element |-> "n1", data |-> "dA"]
        ELSE [controller |-> "c1", element |-> "n2", data |-> "dB"]]

\* The constructor listening on the host's node when no target is given
ControllerListeners_OnHost(opts) ==
    [n \in Nodes |->
        LET cs == {c \in Controllers :
                      (IF opts[c].target = None THEN "n1" ELSE opts[c].target) = n}
        IN  IF cs = {} THEN <<>> ELSE <<CHOOSE c \in cs : TRUE>>]

\* new DragController(host, options): the press listener goes on the target
ControllerListeners(opts) ==
    [n \in Nodes |->
        LET cs == {c \in Controllers : opts[c].target = n}
        IN  IF cs = {} THEN <<>> ELSE <<CHOOSE c \in cs : TRUE>>]

\* The press listeners the rendered bindings have attached, after the controllers'.
BindingListeners(md, bs) ==
    [n \in Nodes |->
        IF bs["bA"].element = n THEN Append(md[n], "bA")
        ELSE IF bs["bB"].element = n THEN Append(md[n], "bB")
        ELSE md[n]]

\* The state after construction: controller c1 with any of the option profiles,
\* controller c2 with all three callbacks and no target, and the bindings not yet
\* constructed; or, for a c1 with all three callbacks and no target, the state
\* its host's first rendering leaves.
Init ==
    /\ options \in [Controllers -> OptionProfiles]
    /\ options["c2"] = [onStart |-> TRUE, onMove |-> TRUE, onEnd |-> TRUE, target |-> None]
    /\ cdata = [c \in Controllers |-> Undefined]
    /\ bindings \in {Unrendered, Rendered}
    /\ bindings = Rendered =>
          options["c1"] = [onStart |-> TRUE, onMove |-> TRUE, onEnd |-> TRUE, target |-> None]
    /\ constructed = [b \in Bindings |-> IF bindings[b].element = None THEN "no" ELSE "yes"]
    /\ mousedown = BindingListeners(ControllerListeners(options), bindings)
    /\ sessions = <<>>
    /\ mousemove = <<>>
    /\ mouseup = <<>>
    /\ contextmenu = <<>>
    /\ log = <<>>
    /\ hist = <<>>

\* this.data of the instance whose closure runs
ThisData(inst) ==
    IF inst \in Controllers THEN cdata[inst] ELSE bindings[inst].data

\* the controller whose _options an instance reads
OptionsOwner(inst) ==
    IF inst \in Controllers THEN inst ELSE bindings[inst].controller

\* let startX / startY before onStart runs
InitialStart(inst) ==
    IF inst \in Controllers
    THEN <<Num(HostOffset[1]), Num(HostOffset[2])>>
    ELSE <<Undef, Undef>>

\* let {onStart, onMove, onEnd} = _options: a callback of the options, or undefined
StaticCallback(has) == IF has THEN "static" ELSE None

\* onMove ??= config?.onMove; onEnd ??= config?.onEnd
ResolveCallback(static, returned) == Nullish(static, returned)

\* ResolveStart as startX = config?.startX ?? startX
ResolveStart_KeepInitial(initial, given) == NullishNum(given, initial)

\* startX = config?.startX ?? 0, assigned to the variable that held initial
ResolveStart(initial, given) == NullishNum(given, Num(0))

\* Delta as clientX - e.clientX + startX
Delta_Reversed(cur, press, start) == JsAdd(JsSub(Num(press), Num(cur)), start)

\* e.clientX - clientX + startX
Delta(cur, press, start) == JsAdd(JsSub(Num(cur), Num(press)), start)

\* The window-level state the listeners act on.
Window ==
    [options |-> options, sessions |-> sessions, mousemove |-> mousemove,
     mouseup |-> mouseup, contextmenu |-> contextmenu, log |-> log]

\* RegisterSession without document.addEventListener('contextmenu', onMouseUp)
RegisterSession_NoContextMenu(w, sid) ==
    [w EXCEPT !.mousemove = AddEventListener(@, sid),
              !.mouseup = AddEventListener(@, sid)]

\* RegisterSession with one handler pair per instance instead of one per
\* press: addEventListener ignores the pair that is already registered
RegisterSession_Shared(w, sid) ==
    IF \E i \in DOMAIN w.mouseup : w.sessions[w.mouseup[i]].inst = w.sessions[sid].inst
    THEN w
    ELSE [w EXCEPT !.mousemove = AddEventListener(@, sid),
                   !.mouseup = AddEventListener(@, sid),
                   !.contextmenu = AddEventListener(@, sid)]

\* The three global listeners a press registers for session sid
RegisterSession(w, sid) ==
    [w EXCEPT !.mousemove = AddEventListener(@, sid),
              !.mouseup = AddEventListener(@, sid),
              !.contextmenu = AddEventListener(@, sid)]

\* UnregisterSession without window.removeEventListener('mouseup', onMouseUp)
UnregisterSession_KeepMouseUp(w, sid) ==
    [w EXCEPT !.mousemove = RemoveEventListener(@, sid),
              !.contextmenu = RemoveEventListener(@, sid)]

\* UnregisterSession without window.removeEventListener('mousemove', onMouseMove)
UnregisterSession_KeepMouseMove(w, sid) ==
    [w EXCEPT !.mouseup = RemoveEventListener(@, sid),
              !.contextmenu = RemoveEventListener(@, sid)]

\* UnregisterSession without document.removeEventListener('contextmenu', onMouseUp)
UnregisterSession_KeepContextMenu(w, sid) ==
    [w EXCEPT !.mousemove = RemoveEventListener(@, sid),
              !.mouseup = RemoveEventListener(@, sid)]

\* The three removals of onMouseUp
UnregisterSession(w, sid) ==
    [w EXCEPT !.mousemove = RemoveEventListener(@, sid),
              !.mouseup = RemoveEventListener(@, sid),
              !.contextmenu = RemoveEventListener(@, sid)]

\* One callback invocation, as the log keeps it.
Call(cb, fn, s, ev, dx, dy) ==
    [cb |-> cb, fn |-> fn, ctl |-> s.ctl, inst |-> s.inst, sess |-> s.id,
     ev |-> ev, dx |-> dx, dy |-> dy, data |-> ThisData(s.inst)]

\* The closure variables of one #onMouseDown call of instance inst on press
\* event e, as its last statement leaves them; onStart behaves as res.
NewSession(w, inst, e, res) ==
    LET c == OptionsOwner(inst)
        opts == w.options[c]
        threw == opts.onStart /\ res = "throw"
        config == IF opts.onStart THEN ConfigOf(res) ELSE ConfigOf("void")
        start0 == InitialStart(inst)
    IN  [id |-> Len(w.sessions) + 1, inst |-> inst, ctl |-> c, pressEv |-> e.ev,
         clientX |-> e.x, clientY |-> e.y,
         called |-> opts.onStart, res |-> res, threw |-> threw,
         startX |-> IF threw THEN start0[1] ELSE ResolveStart(start0[1], config.startX),
         startY |-> IF threw THEN start0[2] ELSE ResolveStart(start0[2], config.startY),
         onMove |-> IF threw THEN StaticCallback(opts.onMove)
                    ELSE ResolveCallback(StaticCallback(opts.onMove), config.onMove),
         onEnd |-> IF threw THEN StaticCallback(opts.onEnd)
                   ELSE ResolveCallback(StaticCallback(opts.onEnd), config.onEnd)]

\* AssignLocals writing the resolved callbacks back into this._options
AssignLocals_WriteOptions(opts, c, onMove, onEnd) ==
    [opts EXCEPT ![c].onMove = (onMove # None), ![c].onEnd = (onEnd # None)]

\* onMove ??= ...; onEnd ??= ... assign the variables destructured from
\* _options, not _options itself: the stored options stay as they are
AssignLocals(opts, c, onMove, onEnd) == opts

\* #onMouseDown with the three addEventListener calls after onStart's call
OnMouseDown_RegisterAfterStart(w, inst, e, res) ==
    LET s == NewSession(w, inst, e, res)
        w0 == [w EXCEPT !.sessions = Append(@, s)]
        w1 == IF s.threw THEN w0 ELSE RegisterSession(w0, s.id)
    IN  IF s.called
        THEN [w1 EXCEPT !.log = Append(@, Call("onStart", "static", s, e.ev, Undef, Undef))]
        ELSE w1

\* #onMouseDown of instance inst on press event e, onStart behaving as res
OnMouseDown(w, inst, e, res) ==
    LET s == NewSession(w, inst, e, res)
        w1 == RegisterSession([w EXCEPT !.sessions = Append(@, s)], s.id)
        w2 == IF s.called
              THEN [w1 EXCEPT !.log = Append(@, Call("onStart", "static", s, e.ev, Undef, Undef))]
              ELSE w1
    IN  IF s.threw THEN w2
        ELSE [w2 EXCEPT !.options = AssignLocals(@, s.ctl, s.onMove, s.onEnd)]

\* onMouseMove ignoring the event once the binding has left the pressed node
OnMouseMove_ChecksElement(w, sid, e) ==
    LET s == w.sessions[sid]
    IN  IF s.onMove = None THEN w
        ELSE IF s.inst \in Bindings /\ bindings[s.inst].element # hist[s.pressEv].node
        THEN w
        ELSE [w EXCEPT !.log = Append(@,
                 Call("onMove", s.onMove, s, e.ev,
                      Delta(e.x, s.clientX, s.startX), Delta(e.y, s.clientY, s.startY)))]

\* the closure onMouseMove of session sid on movement event e
OnMouseMove(w, sid, e) ==
    LET s == w.sessions[sid]
    IN  IF s.onMove = None THEN w
        ELSE [w EXCEPT !.log = Append(@,
                 Call("onMove", s.onMove, s, e.ev,
                      Delta(e.x, s.clientX, s.startX), Delta(e.y, s.clientY, s.startY)))]

\* onMouseUp returning early, before the removals, when there is no onEnd
OnMouseUp_NeedsOnEnd(w, sid, e) ==
    LET s == w.sessions[sid]
    IN  IF s.onEnd = None THEN w
        ELSE [UnregisterSession(w, sid) EXCEPT
                 !.log = Append(@, Call("onEnd", s.onEnd, s, e.ev, Undef, Undef))]

\* the closure onMouseUp of session sid on a release or context-menu event e
OnMouseUp(w, sid, e) ==
    LET s == w.sessions[sid]
        w1 == UnregisterSession(w, sid)
    IN  IF s.onEnd = None THEN w1
        ELSE [w1 EXCEPT !.log = Append(@, Call("onEnd", s.onEnd, s, e.ev, Undef, Undef))]

\* Event dispatch: the listeners registered when the event arrives, in order.
RECURSIVE DispatchMouseDown(_, _, _, _)
DispatchMouseDown(w, ls, e, res) ==
    IF ls = <<>> THEN w
    ELSE DispatchMouseDown(OnMouseDown(w, Head(ls), e, res), Tail(ls), e, res)

RECURSIVE DispatchMouseMove(_, _, _)
DispatchMouseMove(w, ls, e) ==
    IF ls = <<>> THEN w
    ELSE DispatchMouseMove(OnMouseMove(w, Head(ls), e), Tail(ls), e)

RECURSIVE DispatchMouseUp(_, _, _)
DispatchMouseUp(w, ls, e) ==
    IF ls = <<>> THEN w
    ELSE DispatchMouseUp(OnMouseUp(w, Head(ls), e), Tail(ls), e)

SetWindow(w) ==
    /\ options' = w.options
    /\ sessions' = w.sessions
    /\ mousemove' = w.mousemove
    /\ mouseup' = w.mouseup
    /\ contextmenu' = w.contextmenu
    /\ log' = w.log

\* What the onStart calls of a press explore: every outcome for a controller's
\* own listener, and for a binding's listener (the same statements, lines
\* 136-166) all but the result with omitted fields; "void" when no onStart is
\* configured.
OutcomesOn(ls) ==
    IF \A i \in DOMAIN ls : ~options[OptionsOwner(ls[i])].onStart THEN {"void"}
    ELSE IF \E i \in DOMAIN ls : ls[i] \in Bindings THEN StartResults \ {"partial"}
    ELSE StartResults

\* A press at point pt on node n; every onStart it invokes behaves as res.
MouseDown(n, pt, res) ==
    /\ Len(hist) < MaxEvents
    /\ res \in OutcomesOn(mousedown[n])
    /\ LET e == [type |-> "mousedown", node |-> n, x |-> pt[1], y |-> pt[2],
                 res |-> res, ev |-> Len(hist) + 1]
       IN  /\ hist' = Append(hist, e)
           /\ SetWindow(DispatchMouseDown(Window, mousedown[n], e, res))
    /\ UNCHANGED <<cdata, constructed, bindings, mousedown>>

\* A movement event at point pt.
MouseMove(pt) ==
    /\ Len(hist) < MaxEvents
    /\ LET e == [type |-> "mousemove", x |-> pt[1], y |-> pt[2], ev |-> Len(hist) + 1]
       IN  /\ hist' = Append(hist, e)
           /\ SetWindow(DispatchMouseMove(Window, mousemove, e))
    /\ UNCHANGED <<cdata, constructed, bindings, mousedown>>

\* A release event.
MouseUp ==
    /\ Len(hist) < MaxEvents
    /\ LET e == [type |-> "mouseup", ev |-> Len(hist) + 1]
       IN  /\ hist' = Append(hist, e)
           /\ SetWindow(DispatchMouseUp(Window, mouseup, e))
    /\ UNCHANGED <<cdata, constructed, bindings, mousedown>>

\* A context-menu event.
ContextMenu ==
    /\ Len(hist) < MaxEvents
    /\ LET e == [type |-> "contextmenu", ev |-> Len(hist) + 1]
       IN  /\ hist' = Append(hist, e)
           /\ SetWindow(DispatchMouseUp(Window, contextmenu, e))
    /\ UNCHANGED <<cdata, constructed, bindings, mousedown>>

\* CheckPart without the test of partInfo.type
CheckPart_Unchecked(partType) == "yes"

\* if (partInfo.type !== PartType.ELEMENT) throw new Error(...)
CheckPart(partType) == IF partType # "ELEMENT" THEN "error" ELSE "yes"

\* new DraggableDirective(partInfo), in the template of a host whose controller
\* c1 has no target of its own (a host uses its controller through a target or
\* through handle(), as the demo's elements do)
Construct(b, partType) ==
    /\ Len(hist) < MaxEvents
    /\ options["c1"].target = None
    /\ constructed[b] = "no"
    /\ constructed' = [constructed EXCEPT ![b] = CheckPart(partType)]
    /\ hist' = Append(hist, [type |-> "construct", binding |-> b, part |-> partType,
                             ev |-> Len(hist) + 1])
    /\ UNCHANGED <<options, cdata, bindings, mousedown, sessions, mousemove, mouseup,
                   contextmenu, log>>

\* StoreData into a slot all bindings share
StoreData_Shared(bs, b, d) == [x \in DOMAIN bs |-> [bs[x] EXCEPT !.data = d]]

\* this.data = data
StoreData(bs, b, d) == [bs EXCEPT ![b].data = d]

\* StoreController with = in place of ??=
StoreController_Overwrite(bs, b, c) == [bs EXCEPT ![b].controller = c]

\* this.controller ??= controller
StoreController(bs, b, c) == [bs EXCEPT ![b].controller = Nullish(@, c)]

\* Reattach without removeEventListener on the old node
Reattach_KeepOld(md, b, old, n) == [md EXCEPT ![n] = AddEventListener(@, b)]

\* Reattach without addEventListener on the new node
Reattach_DetachOnly(md, b, old, n) ==
    IF old # None THEN [md EXCEPT ![old] = RemoveEventListener(@, b)] ELSE md

\* the element branch of update: detach from the old node, attach to the new one
Reattach(md, b, old, n) ==
    LET md1 == IF old # None
               THEN [md EXCEPT ![old] = RemoveEventListener(@, b)]
               ELSE md
    IN  [md1 EXCEPT ![n] = AddEventListener(@, b)]

\* DraggableDirective.update(part, [controller, data]) with part.element = n
Update(b, c, n, d) ==
    /\ Len(hist) < MaxEvents
    /\ constructed[b] = "yes"
    /\ LET bs == StoreController(StoreData(bindings, b, d), b, c)
           old == bindings[b].element
       IN  IF n # old
           THEN /\ mousedown' = Reattach(mousedown, b, old, n)
                /\ bindings' = [bs EXCEPT ![b].element = n]
           ELSE /\ mousedown' = mousedown
                /\ bindings' = bs
    /\ hist' = Append(hist, [type |-> "update", binding |-> b, controller |-> c,
                             node |-> n, data |-> d, ev |-> Len(hist) + 1])
    /\ UNCHANGED <<options, cdata, constructed, sessions, mousemove, mouseup,
                   contextmenu, log>>

\* controller.data = d, by the controller's owner
SetData(c, d) ==
    /\ Len(hist) < MaxEvents
    /\ options[c].target # None
    /\ cdata' = [cdata EXCEPT ![c] = d]
    /\ hist' = Append(hist, [type |-> "setdata", controller |-> c, data |-> d,
                             ev |-> Len(hist) + 1])
    /\ UNCHANGED <<options, constructed, bindings, mousedown, sessions, mousemove,
                   mouseup, contextmenu, log>>

\* The evaluations a binding receives, as <<controller, part.element, data>>:
\* bA's differ from its first rendering <<"c1", "n1", "dA">> in the node, or in
\* the payload and the controller; bB's repeat its first rendering.
UpdateInputs(b) ==
    IF b = "bA"
    THEN {<<"c1", "n2", "dA">>, <<"c2", "n1", "dB">>}
    ELSE {<<"c1", "n2", "dB">>}

\* The payloads the owner of a controller assigns to its data slot.
ControllerPayloads == {"dA"}

Next ==
    \/ \E n \in Nodes, res \in StartResults : MouseDown(n, PressPoint(n), res)
    \/ MouseMove(PointerPath(Cardinality({i \in DOMAIN hist : hist[i].type = "mousemove"}) + 1))
    \/ MouseUp
    \/ ContextMenu
    \/ \E b \in Bindings, partType \in PartTypes : Construct(b, partType)
    \/ \E b \in Bindings : \E u \in UpdateInputs(b) : Update(b, u[1], u[2], u[3])
    \/ \E c \in Controllers, d \in ControllerPayloads : SetData(c, d)

Spec == Init /\ [][Next]_vars

(***************************************************************************)
(* What the input events and the callback invocations say about a session. *)
(***************************************************************************)
Range(f) == {f[i] : i \in DOMAIN f}

Indices == [i \in 1..Len(hist) |-> i]

CallsOf(s) == SelectSeq(log, LAMBDA c : c.sess = s)

IsEnd(i) == hist[i].type \in {"mouseup", "contextmenu"}

\* The first release or context-menu event after the press of session s, or
\* Len(hist) + 1 when none has arrived.
EndEv(s) ==
    LET later == {i \in 1..Len(hist) : i > sessions[s].pressEv /\ IsEnd(i)}
    IN  IF later = {} THEN Len(hist) + 1
        ELSE CHOOSE i \in later : \A j \in later : i <= j

Ended(s) == EndEv(s) <= Len(hist)

\* The movement events after event p and before event e, in arrival order.
MovesBetween(p, e) ==
    SelectSeq(Indices, LAMBDA i : i > p /\ i < e /\ hist[i].type = "mousemove")

\* The movement events between the press of session s and its end.
MoveEvs(s) == LET e == EndEv(s) IN MovesBetween(sessions[s].pressEv, e)

\* What onStart returned to session s (nothing when it was not configured or threw).
Returned(s) ==
    IF sessions[s].called /\ sessions[s].res # "throw"
    THEN ConfigOf(sessions[s].res) ELSE ConfigOf("void")

\* Session s has an onMove (an onEnd): a static one, or one onStart returned.
HasOnMove(s) == options[sessions[s].ctl].onMove \/ Returned(s).onMove # None
HasOnEnd(s) == options[sessions[s].ctl].onEnd \/ Returned(s).onEnd # None

Registered(s) == s \in Range(mousemove) \cup Range(mouseup) \cup Range(contextmenu)

\* The callbacks of a call sequence with the events that triggered them.
Trace(calls) == [i \in DOMAIN calls |-> <<calls[i].cb, calls[i].ev>>]

\* C1: in a session whose controller has onStart, formed by a press, N movement
\* events and a release, onStart is invoked exactly once and first, the
\* session's onMove exactly once per movement event in arrival order, and the
\* session's onEnd exactly once and last; nothing else is invoked for it.
C1_StartMovesEnd ==
    \A s \in DOMAIN sessions :
        sessions[s].called =>
            LET end == EndEv(s)
                moves == MovesBetween(sessions[s].pressEv, end)
            IN  Trace(CallsOf(s)) =
                    <<<<"onStart", sessions[s].pressEv>>>>
                    \o (IF HasOnMove(s)
                        THEN [i \in DOMAIN moves |-> <<"onMove", moves[i]>>]
                        ELSE <<>>)
                    \o (IF end <= Len(hist) /\ HasOnEnd(s)
                        THEN <<<<"onEnd", end>>>>
                        ELSE <<>>)

C1_Witness ==
    \E s \in DOMAIN sessions :
        /\ sessions[s].called /\ HasOnMove(s) /\ HasOnEnd(s)
        /\ Ended(s) /\ hist[EndEv(s)].type = "mouseup"
        /\ Len(MoveEvs(s)) = 2
        /\ hist[MoveEvs(s)[1]].x # hist[MoveEvs(s)[2]].x
        /\ Len(CallsOf(s)) = 4

\* C2: once a release has ended a session, none of its three listeners is
\* registered and nothing is invoked for it any more; a movement event that
\* arrives after a release and before the next press invokes no callback.
C2_ReleaseRemovesListeners ==
    /\ \A s \in DOMAIN sessions :
          LET end == EndEv(s)
          IN  (end <= Len(hist) /\ hist[end].type = "mouseup") =>
                  /\ ~Registered(s)
                  /\ \A k \in DOMAIN log : log[k].sess = s => log[k].ev <= end
    /\ \A i \in DOMAIN hist :
          (/\ hist[i].type = "mousemove"
           /\ \E j \in 1..(i - 1) :
                 /\ hist[j].type = "mouseup"
                 /\ \A m \in (j + 1)..(i - 1) : hist[m].type # "mousedown")
          => \A k \in DOMAIN log : log[k].ev # i

C2_Witness ==
    \E s \in DOMAIN sessions : \E i \in DOMAIN hist :
        /\ HasOnMove(s) /\ Len(MoveEvs(s)) >= 1
        /\ Ended(s) /\ hist[EndEv(s)].type = "mouseup"
        /\ i > EndEv(s) /\ hist[i].type = "mousemove"

\* C3: a context-menu event during an active session ends it as a release
\* does: the session's onEnd is invoked exactly once, for that event, its
\* three listeners are removed, and no later movement or release event invokes
\* anything for it.
C3_ContextMenuEnds ==
    \A s \in DOMAIN sessions :
        LET end == EndEv(s)
        IN  (end <= Len(hist) /\ hist[end].type = "contextmenu") =>
                /\ ~Registered(s)
                /\ HasOnEnd(s) =>
                      Cardinality({k \in DOMAIN log :
                          log[k].sess = s /\ log[k].cb = "onEnd" /\ log[k].ev = end}) = 1
                /\ \A k \in DOMAIN log : log[k].sess = s =>
                      /\ log[k].ev <= end
                      /\ log[k].cb = "onEnd" => log[k].ev = end

C3_Witness ==
    \E s \in DOMAIN sessions : \E i, j \in DOMAIN hist :
        /\ HasOnEnd(s) /\ HasOnMove(s)
        /\ Ended(s) /\ hist[EndEv(s)].type = "contextmenu"
        /\ i > EndEv(s) /\ hist[i].type = "mousemove"
        /\ j > EndEv(s) /\ hist[j].type = "mouseup"

\* The sessions of instance inst that have a listener in the list ls.
ActiveIn(ls, inst) == {s \in Range(ls) : sessions[s].inst = inst}

\* C4: of one controller or binding, at most one session has listeners
\* registered at any time, also after a second press during a session.
C4_AtMostOneSession ==
    \A inst \in Controllers \cup Bindings :
        /\ Cardinality(ActiveIn(mousemove, inst)) <= 1
        /\ Cardinality(ActiveIn(mouseup, inst)) <= 1
        /\ Cardinality(ActiveIn(contextmenu, inst)) <= 1

\* C5: when onStart returned an onMove (an onEnd), it is the returned one
\* that the session invokes, also when the options have a static one.
C5_ReturnedTakesPrecedence ==
    \A k \in DOMAIN log :
        /\ (log[k].cb = "onMove" /\ Returned(log[k].sess).onMove # None)
              => log[k].fn = "returned"
        /\ (log[k].cb = "onEnd" /\ Returned(log[k].sess).onEnd # None)
              => log[k].fn = "returned"

\* C6: every onMove of a session whose onStart returned startX (startY)
\* receives deltaX = mx - px + sx (deltaY = my - py + sy), from the press
\* event, the returned offset and the movement event that triggered it.
C6_DeltaFormula ==
    \A k \in DOMAIN log :
        log[k].cb = "onMove" =>
            LET s == log[k].sess
                press == hist[sessions[s].pressEv]
                move == hist[log[k].ev]
                sx == Returned(s).startX
                sy == Returned(s).startY
            IN  /\ sx.t = "number" => log[k].dx = Num(move.x - press.x + sx.v)
                /\ sy.t = "number" => log[k].dy = Num(move.y - press.y + sy.v)

\* press = (100,100), start = (50,50), move = (120,130) gives delta = (70,80),
\* after an earlier movement event of the same session.
C6_Witness ==
    \E k \in DOMAIN log :
        /\ log[k].cb = "onMove"
        /\ hist[sessions[log[k].sess].pressEv].x = 100
        /\ hist[sessions[log[k].sess].pressEv].y = 100
        /\ Returned(log[k].sess).startX = Num(50)
        /\ Returned(log[k].sess).startY = Num(50)
        /\ hist[log[k].ev].x = 120 /\ hist[log[k].ev].y = 130
        /\ log[k].dx = Num(70) /\ log[k].dy = Num(80)
        /\ \E j \in 1..(k - 1) :
              /\ log[j].cb = "onMove" /\ log[j].sess = log[k].sess
              /\ log[j].dx # log[k].dx

\* onStart of session s returned: nothing, or a result (it did not throw).
StartReturned(s) == ~(sessions[s].called /\ sessions[s].res = "throw")

\* C7: when onStart returned no startX (startY), because it returned nothing,
\* returned a result without it, or is not configured, every onMove of the
\* session receives the delta with offset 0: deltaX = mx - px.
C7_OmittedStartIsZero ==
    \A k \in DOMAIN log :
        (log[k].cb = "onMove" /\ StartReturned(log[k].sess)) =>
            LET s == log[k].sess
                press == hist[sessions[s].pressEv]
                move == hist[log[k].ev]
            IN  /\ Returned(s).startX.t = "undefined" => log[k].dx = Num(move.x - press.x)
                /\ Returned(s).startY.t = "undefined" => log[k].dy = Num(move.y - press.y)

\* A controller's own session, whose press read the host's layout offset
\* (7, 9), and whose onStart returned nothing: press (100,100), move (120,130)
\* gives delta (20,30).
C7_Witness ==
    /\ HostOffset[1] # 0 /\ HostOffset[2] # 0
    /\ \E k \in DOMAIN log :
          /\ log[k].cb = "onMove" /\ log[k].inst \in Controllers
          /\ sessions[log[k].sess].called /\ sessions[log[k].sess].res = "void"
          /\ log[k].dx = Num(20) /\ log[k].dy = Num(30)

\* Binding b was rendered before the first event of the run.
InitiallyRendered(b) ==
    /\ constructed[b] = "yes"
    /\ \A i \in DOMAIN hist : ~(hist[i].type = "construct" /\ hist[i].binding = b)

\* The evaluations of binding b before event i.
UpdatesBefore(b, i) ==
    {j \in 1..(i - 1) : hist[j].type = "update" /\ hist[j].binding = b}

LastUpdateBefore(b, i) ==
    LET ups == UpdatesBefore(b, i)
    IN  CHOOSE j \in ups : \A m \in ups : m <= j

\* The node (the payload) of the latest evaluation of binding b before event i.
NodeAt(b, i) ==
    IF UpdatesBefore(b, i) # {} THEN hist[LastUpdateBefore(b, i)].node
    ELSE IF InitiallyRendered(b) THEN Rendered[b].element ELSE None

PayloadAt(b, i) ==
    IF UpdatesBefore(b, i) # {} THEN hist[LastUpdateBefore(b, i)].data
    ELSE IF InitiallyRendered(b) THEN Rendered[b].data ELSE Undefined

\* The sessions of instance inst that press event i started.
StartedBy(inst, i) ==
    {s \in DOMAIN sessions : sessions[s].inst = inst /\ sessions[s].pressEv = i}

\* C8: a press starts a session of a binding exactly when it is on the node of
\* the binding's latest evaluation: after a re-evaluation with another node a
\* press on the old node starts none and a press on the new node starts one.
C8_RebindMovesListener ==
    \A i \in DOMAIN hist :
        hist[i].type = "mousedown" =>
            \A b \in Bindings :
                Cardinality(StartedBy(b, i)) = (IF hist[i].node = NodeAt(b, i) THEN 1 ELSE 0)

C8_Witness ==
    \E b \in Bindings : \E u, i, j \in DOMAIN hist :
        /\ u < i /\ u < j
        /\ hist[u].type = "update" /\ hist[u].binding = b
        /\ NodeAt(b, u) # None /\ NodeAt(b, u) # hist[u].node
        /\ hist[i].type = "mousedown" /\ hist[i].node = NodeAt(b, u)
        /\ StartedBy(b, i) = {}
        /\ hist[j].type = "mousedown" /\ hist[j].node = hist[u].node
        /\ StartedBy(b, j) # {}

\* C9: every onMove and onEnd of a session receives the payload that the
\* session's onStart received.
C9_PayloadFixedPerSession ==
    \A j, k \in DOMAIN log :
        (log[j].cb = "onStart" /\ log[k].sess = log[j].sess) => log[k].data = log[j].data

\* C10: every callback of a session of a binding receives the payload of that
\* binding's own latest evaluation, whatever the other bindings of the same
\* controller were evaluated with.
C10_PayloadPerBinding ==
    \A k \in DOMAIN log :
        log[k].inst \in Bindings => log[k].data = PayloadAt(log[k].inst, log[k].ev)

\* A callback of one binding's session after another binding of the same
\* controller was evaluated, during that session, with a different payload.
C10_Witness ==
    \E k \in DOMAIN log : \E u \in DOMAIN hist :
        /\ log[k].inst \in Bindings /\ log[k].cb \in {"onMove", "onEnd"}
        /\ hist[u].type = "update" /\ hist[u].binding # log[k].inst
        /\ bindings[hist[u].binding].controller = bindings[log[k].inst].controller
        /\ sessions[log[k].sess].pressEv < u /\ u < log[k].ev
        /\ hist[u].data # log[k].data

\* C11: constructing a binding at a position that is not a whole element
\* raises the error at once: the binding never carries a press listener, is
\* never evaluated and never starts a session; constructing it at an element
\* position raises no error.
C11_NonElementThrows ==
    \A i \in DOMAIN hist :
        hist[i].type = "construct" =>
            LET b == hist[i].binding
            IN  /\ hist[i].part = "ELEMENT" => constructed[b] = "yes"
                /\ hist[i].part # "ELEMENT" =>
                      /\ constructed[b] = "error"
                      /\ bindings[b] = Unrendered[b]
                      /\ \A n \in Nodes : b \notin Range(mousedown[n])
                      /\ \A s \in DOMAIN sessions : sessions[s].inst # b

\* One binding constructed at an attribute position and one at an element
\* position, followed by an evaluation of the latter and a press on its node.
C11_Witness ==
    \E i, j, u, p \in DOMAIN hist :
        /\ hist[i].type = "construct" /\ hist[i].part = "ATTRIBUTE"
        /\ constructed[hist[i].binding] = "error"
        /\ hist[j].type = "construct" /\ hist[j].part = "ELEMENT"
        /\ constructed[hist[j].binding] = "yes"
        /\ u > j /\ hist[u].type = "update" /\ hist[u].binding = hist[j].binding
        /\ p > u /\ p > i /\ hist[p].type = "mousedown" /\ hist[p].node = hist[u].node

\* The log entries of session s for callback cb.
CallsFor(s, cb) == {k \in DOMAIN log : log[k].sess = s /\ log[k].cb = cb}

\* Session s holds all three global listeners.
FullyRegistered(s) ==
    s \in Range(mousemove) /\ s \in Range(mouseup) /\ s \in Range(contextmenu)

\* C12: a phase without a callback is a silent no-op: a session that has no
\* onStart, no onMove or no onEnd (neither static nor returned) gets nothing
\* invoked for that phase, yet it begins on the press of the controller's
\* target, holds its three listeners until the release or context-menu event,
\* and has none of them afterwards.
C12_MissingCallbackIsNoOp ==
    /\ \A s \in DOMAIN sessions :
          (~sessions[s].called \/ ~HasOnMove(s) \/ ~HasOnEnd(s)) =>
              /\ ~sessions[s].called => CallsFor(s, "onStart") = {}
              /\ ~HasOnMove(s) => CallsFor(s, "onMove") = {}
              /\ ~HasOnEnd(s) => CallsFor(s, "onEnd") = {}
              /\ IF Ended(s) THEN ~Registered(s) ELSE FullyRegistered(s)
    /\ \A i \in DOMAIN hist : \A c \in Controllers :
          (hist[i].type = "mousedown" /\ hist[i].node = options[c].target)
              => Cardinality(StartedBy(c, i)) = 1

\* A controller configured with onMove only (the README's example): press,
\* movement, release invoke onMove once and nothing else, and the release
\* removes the listeners.
C12_Witness ==
    \E s \in DOMAIN sessions :
        /\ sessions[s].inst \in Controllers
        /\ ~sessions[s].called /\ HasOnMove(s) /\ ~HasOnEnd(s)
        /\ Len(MoveEvs(s)) = 1
        /\ Ended(s) /\ hist[EndEv(s)].type = "mouseup"
        /\ Trace(CallsOf(s)) = <<<<"onMove", MoveEvs(s)[1]>>>>
        /\ ~Registered(s)

\* The positions of listener l in the list ls.
Occurrences(ls, l) == {i \in DOMAIN ls : ls[i] = l}

\* No binding has received controller c through handle().
Unused(c) == \A b \in Bindings : bindings[b].controller # c

\* C13: a controller without a target has no press listener on any node and
\* never starts a session of its own; if it was never used through handle()
\* either, no session reads its options and none of its callbacks is invoked,
\* whatever events arrive. A controller with a target has its press listener
\* on that node, once, from construction on.
C13_NoTargetIsInert ==
    \A c \in Controllers :
        /\ options[c].target = None =>
              /\ \A n \in Nodes : c \notin Range(mousedown[n])
              /\ \A s \in DOMAIN sessions : sessions[s].inst # c
              /\ Unused(c) =>
                    /\ \A s \in DOMAIN sessions : sessions[s].ctl # c
                    /\ \A k \in DOMAIN log : log[k].ctl # c
        /\ options[c].target # None =>
              \A n \in Nodes :
                  Cardinality(Occurrences(mousedown[n], c)) =
                      (IF n = options[c].target THEN 1 ELSE 0)

\* Controllers without target and without bindings, after a press, a movement,
\* a release and a context-menu event: nothing was invoked or registered.
C13_Witness ==
    /\ \A c \in Controllers : options[c].target = None /\ Unused(c)
    /\ \E i, j, k, m \in DOMAIN hist :
          /\ hist[i].type = "mousedown" /\ hist[j].type = "mousemove"
          /\ hist[k].type = "mouseup" /\ hist[m].type = "contextmenu"
    /\ sessions = <<>> /\ log = <<>>
    /\ mousemove = <<>> /\ mouseup = <<>> /\ contextmenu = <<>>

\* C14: the global listeners come and go as a matched set: at any time the
\* movement, release and context-menu listeners registered are those of the
\* same sessions, in equal numbers, so a session holds all three or none.
C14_MatchedSet ==
    /\ Len(mousemove) = Len(mouseup) /\ Len(mouseup) = Len(contextmenu)
    /\ Range(mousemove) = Range(mouseup) /\ Range(mouseup) = Range(contextmenu)
    /\ \A s \in DOMAIN sessions : Registered(s) => FullyRegistered(s)

\* Two sessions ended together by a context-menu event, and a later one
\* holding its three listeners.
C14_Witness ==
    \E s, t, u \in DOMAIN sessions :
        /\ s # t /\ Ended(s) /\ Ended(t) /\ EndEv(s) = EndEv(t)
        /\ hist[EndEv(s)].type = "contextmenu"
        /\ ~Registered(s) /\ ~Registered(t)
        /\ ~Ended(u) /\ FullyRegistered(u)
        /\ Len(mousemove) = 1

\* Before session s, a session of the same controller had onStart return a result.
AfterOverride(s) ==
    \E t \in 1..(s - 1) :
        /\ sessions[t].ctl = sessions[s].ctl
        /\ sessions[t].called /\ sessions[t].res \in {"full", "partial"}

\* A session whose onStart returned nothing, after one whose onStart returned
\* a result, runs on the static options alone: static callbacks, offset 0.
VoidSessionUsesStatic ==
    \A s \in DOMAIN sessions :
        (sessions[s].called /\ sessions[s].res = "void" /\ AfterOverride(s)) =>
            /\ ~options[sessions[s].ctl].onMove => CallsFor(s, "onMove") = {}
            /\ ~options[sessions[s].ctl].onEnd => CallsFor(s, "onEnd") = {}
            /\ \A k \in DOMAIN log :
                  log[k].sess = s =>
                      /\ log[k].fn = "static"
                      /\ log[k].cb = "onMove" =>
                            /\ log[k].dx = Num(hist[log[k].ev].x - sessions[s].clientX)
                            /\ log[k].dy = Num(hist[log[k].ev].y - sessions[s].clientY)

\* C15: what onStart returns lasts for the current drag only: no step changes
\* a controller's stored options, and a later session whose onStart returns
\* nothing uses none of the callbacks or offsets an earlier onStart returned.
C15_OverridesLastOneDrag == [][options' = options /\ VoidSessionUsesStatic']_vars

\* A session whose onStart returned onEnd, ended with that onEnd invoked; then
\* a session of the same controller whose onStart returned nothing, ended by a
\* release with no onEnd invoked.
C15_Witness ==
    \E t, s \in DOMAIN sessions :
        /\ t < s /\ sessions[t].ctl = sessions[s].ctl
        /\ sessions[t].res = "full" /\ Ended(t)
        /\ \E k \in CallsFor(t, "onEnd") : log[k].fn = "returned"
        /\ sessions[s].pressEv > EndEv(t)
        /\ sessions[s].called /\ sessions[s].res = "void" /\ Ended(s)
        /\ Trace(CallsOf(s)) = <<<<"onStart", sessions[s].pressEv>>>>

\* C16: whatever evaluations a binding has gone through, with the same node
\* or with changing nodes, its press listener is on the node of the latest
\* evaluation, once, and on no other node, so that one press on that node
\* starts exactly one session of the binding.
C16_OneListenerOnLatestNode ==
    \A b \in Bindings :
        /\ LET latest == NodeAt(b, Len(hist) + 1)
           IN  \A n \in Nodes :
                   Cardinality(Occurrences(mousedown[n], b)) = (IF n = latest THEN 1 ELSE 0)
        /\ \A i \in DOMAIN hist :
              (hist[i].type = "mousedown" /\ hist[i].node = NodeAt(b, i))
                  => Cardinality(StartedBy(b, i)) = 1

\* An evaluation that changes the node, a re-evaluation with that same node,
\* then a press on it.
C16_Witness ==
    \E b \in Bindings : \E u, v, p \in DOMAIN hist :
        /\ u < v /\ v < p
        /\ hist[u].type = "update" /\ hist[u].binding = b
        /\ NodeAt(b, u) # None /\ NodeAt(b, u) # hist[u].node
        /\ hist[v].type = "update" /\ hist[v].binding = b
        /\ hist[v].node = hist[u].node
        /\ hist[p].type = "mousedown" /\ hist[p].node = hist[v].node
        /\ Cardinality(StartedBy(b, p)) = 1

\* C17: one release or context-menu event closes every session open when it
\* arrives, also the k sessions that k presses on one controller or binding
\* opened: each of them has lost its listeners and has had its onEnd invoked
\* once, for that event, and no global listener is left registered.
C17_OneReleaseClosesAll ==
    /\ \A s \in DOMAIN sessions :
          LET end == EndEv(s)
          IN  end <= Len(hist) =>
                  /\ ~Registered(s)
                  /\ HasOnEnd(s) =>
                        \E k \in DOMAIN log :
                            CallsFor(s, "onEnd") = {k} /\ log[k].ev = end
    /\ (hist # <<>> /\ IsEnd(Len(hist))) =>
          mousemove = <<>> /\ mouseup = <<>> /\ contextmenu = <<>>

\* Two presses on one instance with no release between them, then one
\* release: both sessions got their onEnd and nothing is left registered.
C17_Witness ==
    \E s, t \in DOMAIN sessions :
        /\ s # t /\ sessions[s].inst = sessions[t].inst
        /\ sessions[s].pressEv < sessions[t].pressEv
        /\ Ended(s) /\ EndEv(s) = EndEv(t) /\ hist[EndEv(s)].type = "mouseup"
        /\ CallsFor(s, "onEnd") # {} /\ CallsFor(t, "onEnd") # {}
        /\ EndEv(s) = Len(hist)
        /\ mousemove = <<>> /\ mouseup = <<>> /\ contextmenu = <<>>

\* Event u re-evaluates the binding of session s with another node while the
\* session is active.
ReboundAt(s, u) ==
    /\ hist[u].type = "update" /\ hist[u].binding = sessions[s].inst
    /\ hist[u].node # NodeAt(sessions[s].inst, u)
    /\ sessions[s].pressEv < u /\ u < EndEv(s)

\* C18: moving a binding to another node during a session it started on the
\* old node does not disturb the session: it keeps its three listeners, every
\* movement event until its end invokes its onMove, and the next release or
\* context-menu event invokes its onEnd once and removes the listeners.
C18_RebindKeepsSession ==
    \A s \in DOMAIN sessions :
        (\E u \in DOMAIN hist : ReboundAt(s, u)) =>
            LET end == EndEv(s)
                moves == MovesBetween(sessions[s].pressEv, end)
            IN  /\ IF end <= Len(hist) THEN ~Registered(s) ELSE FullyRegistered(s)
                /\ Trace(CallsOf(s)) =
                       (IF sessions[s].called
                        THEN <<<<"onStart", sessions[s].pressEv>>>> ELSE <<>>)
                       \o (IF HasOnMove(s)
                           THEN [i \in DOMAIN moves |-> <<"onMove", moves[i]>>]
                           ELSE <<>>)
                       \o (IF end <= Len(hist) /\ HasOnEnd(s)
                           THEN <<<<"onEnd", end>>>> ELSE <<>>)

\* Press on the old node, re-evaluation with the new node, movement, release:
\* the session got its onMove and its onEnd, and the binding listens on the
\* new node.
C18_Witness ==
    \E s \in DOMAIN sessions : \E u, m \in DOMAIN hist :
        /\ ReboundAt(s, u)
        /\ m > u /\ hist[m].type = "mousemove"
        /\ \E k \in CallsFor(s, "onMove") : log[k].ev = m
        /\ Ended(s) /\ EndEv(s) > m
        /\ Cardinality(CallsFor(s, "onEnd")) = 1
        /\ ~Registered(s)
        /\ bindings[sessions[s].inst].element # hist[sessions[s].pressEv].node

\* C19: the three listeners are registered before onStart is invoked, so a
\* press whose onStart throws still leaves a session, with the static onMove
\* and onEnd: it holds its three listeners, movement events invoke the static
\* onMove, and the next release or context-menu event removes the listeners
\* and invokes the static onEnd once.
C19_ThrowingStartKeepsSession ==
    \A s \in DOMAIN sessions :
        sessions[s].threw =>
            LET end == EndEv(s)
                moves == MovesBetween(sessions[s].pressEv, end)
                static == options[sessions[s].ctl]
            IN  /\ IF end <= Len(hist) THEN ~Registered(s) ELSE FullyRegistered(s)
                /\ \A k \in DOMAIN log :
                      (log[k].sess = s /\ log[k].cb # "onStart") => log[k].fn = "static"
                /\ Cardinality(CallsFor(s, "onMove")) = (IF static.onMove THEN Len(moves) ELSE 0)
                /\ Cardinality(CallsFor(s, "onEnd")) =
                       (IF static.onEnd /\ end <= Len(hist) THEN 1 ELSE 0)
                /\ \A k \in CallsFor(s, "onEnd") : log[k].ev = end

\* A press whose onStart throws, a movement and a release: the static onMove
\* and onEnd were invoked and nothing is left registered.
C19_Witness ==
    \E s \in DOMAIN sessions :
        /\ sessions[s].threw
        /\ Len(MoveEvs(s)) = 1
        /\ Ended(s) /\ hist[EndEv(s)].type = "mouseup"
        /\ Trace(CallsOf(s)) =
               <<<<"onStart", sessions[s].pressEv>>, <<"onMove", MoveEvs(s)[1]>>,
                 <<"onEnd", EndEv(s)>>>>
        /\ mousemove = <<>> /\ mouseup = <<>> /\ contextmenu = <<>>

\* The controller binding b received at its first evaluation, None before it.
FirstController(b) ==
    LET ups == UpdatesBefore(b, Len(hist) + 1)
    IN  IF InitiallyRendered(b) THEN Rendered[b].controller
        ELSE IF ups = {} THEN None
        ELSE hist[CHOOSE j \in ups : \A m \in ups : j <= m].controller

\* C20: a binding keeps the controller of its first evaluation, whatever
\* controller later evaluations pass: every session of the binding reads that
\* controller's options and invokes its callbacks, while the payload they
\* receive is the one of the binding's latest evaluation.
C20_FirstControllerKept ==
    \A b \in Bindings :
        LET first == FirstController(b)
        IN  /\ bindings[b].controller = first
            /\ bindings[b].data = PayloadAt(b, Len(hist) + 1)
            /\ \A s \in DOMAIN sessions :
                  sessions[s].inst = b =>
                      /\ sessions[s].ctl = first
                      /\ sessions[s].called = options[first].onStart
            /\ \A k \in DOMAIN log :
                  log[k].inst = b =>
                      /\ log[k].ctl = first
                      /\ log[k].data = PayloadAt(b, log[k].ev)

\* Two evaluations of a binding with different controllers and different
\* payloads, then a press: onStart of the first controller, payload of the
\* second evaluation.
C20_Witness ==
    \E k \in DOMAIN log : \E u, v \in DOMAIN hist :
        /\ log[k].inst \in Bindings /\ log[k].cb = "onStart"
        /\ u < v /\ v < log[k].ev
        /\ hist[u].type = "update" /\ hist[u].binding = log[k].inst
        /\ hist[v].type = "update" /\ hist[v].binding = log[k].inst
        /\ hist[u].controller # hist[v].controller /\ hist[u].data # hist[v].data
        /\ log[k].ctl = hist[u].controller /\ log[k].data = hist[v].data

====
